---- MODULE Spec2Model ----
(***************************************************************************)
(* Model of src/utils/fileValidator.ts: the signature registry             *)
(* SUPPORTED_FILE_TYPES, the prefix reader readFileHeader, the matcher     *)
(* matchMagicBytes and the two entry points validateFileType and           *)
(* detectFileType.                                                         *)
(*                                                                         *)
(* A call is one invocation of an entry point.  JavaScript runs each       *)
(* piece of a call to completion, so a call takes two steps: the           *)
(* synchronous part up to `await readFileHeader(...)`, and the FileReader  *)
(* event (onload / onerror) together with the continuation it resumes.     *)
(*                                                                         *)
(* File names are sequences of one-character strings, contents are         *)
(* sequences of byte values 0..255.  Allow-list tags are ordinary tag      *)
(* names (own keys of the registry, or names with no property at all on    *)
(* the registry object).                                                   *)
(*                                                                         *)
(* The upload widget of cosUpload.ts (processFile and the handlers around  *)
(* it) is modelled on top: each invocation of processFile owns one         *)
(* validateFileType call and at most one uploadViaBackendAPI call.  The    *)
(* catch of processFile (lines 363-367) has nothing to catch, since        *)
(* neither of the two awaited functions rejects.                           *)
(***************************************************************************)
EXTENDS Integers, Sequences, FiniteSets

VARIABLES calls, widget, procs

vars == <<calls, widget, procs>>

(***************************************************************************)
(* Bounds of the model                                                     *)
(***************************************************************************)
MaxSegs == 2      \* '.'-separated segments in a file name
MaxTail == 1      \* bytes appended after a (possibly truncated) signature
MaxAllow == 2     \* length of the caller's allow-list
MaxProcs == 2     \* invocations of the upload widget's processFile

(***************************************************************************)
(* Generic helpers                                                         *)
(***************************************************************************)
Range(s) == {s[i] : i \in 1..Len(s)}

SeqsUpTo(S, n) == UNION {[1..k -> S] : k \in 0..n}

MinOf(S) == CHOOSE x \in S : \A y \in S : x <= y

MaxOf(S) == CHOOSE x \in S : \A y \in S : x >= y

Undefined == "undefined"

NoError == <<>>

(***************************************************************************)
(* The registry (fileValidator.ts:20-39)                                   *)
(***************************************************************************)
SUPPORTED_FILE_TYPES ==
  [png |-> [mime |-> "image/png",
            extensions |-> << <<"p","n","g">> >>,
            magicBytes |-> << <<137, 80, 78, 71, 13, 10, 26, 10>> >>],
   jpg |-> [mime |-> "image/jpeg",
            extensions |-> << <<"j","p","g">>, <<"j","p","e","g">> >>,
            magicBytes |-> << <<255, 216, 255, 224>>,
                              <<255, 216, 255, 225>>,
                              <<255, 216, 255, 226>>,
                              <<255, 216, 255, 227>>,
                              <<255, 216, 255, 219>> >>]]

\* Object.entries(SUPPORTED_FILE_TYPES) enumerates own keys in insertion order
RegistryOrder == <<"png", "jpg">>

Registered(type) == type \in DOMAIN SUPPORTED_FILE_TYPES

(***************************************************************************)
(* String operations on file names                                         *)
(***************************************************************************)
\* String.prototype.toLowerCase on the characters the model uses
lowerChar(ch) ==
  CASE ch = "P" -> "p"
    [] ch = "N" -> "n"
    [] ch = "G" -> "g"
    [] ch = "J" -> "j"
    [] ch = "E" -> "e"
    [] ch = "A" -> "a"
    [] OTHER -> ch

toLowerCase(s) == [i \in 1..Len(s) |-> lowerChar(s[i])]

\* String.prototype.split('.'): the segments between the dots; a string
\* with no dot is its own single segment, the empty string gives <<"">>
RECURSIVE split(_)
split(s) ==
  LET dots == {i \in 1..Len(s) : s[i] = "."}
  IN IF dots = {}
       THEN <<s>>
       ELSE LET d == MinOf(dots)
            IN <<SubSeq(s, 1, d - 1)>> \o split(SubSeq(s, d + 1, Len(s)))

\* Array.prototype.pop(): the last element
pop(a) == a[Len(a)]

\* Array.prototype.join(sep) on an array of strings; an undefined element
\* (modelled as the empty string) contributes nothing
RECURSIVE join(_, _)
join(a, sep) ==
  IF Len(a) = 0 THEN <<>>
  ELSE IF Len(a) = 1 THEN a[1]
  ELSE a[1] \o sep \o join(Tail(a), sep)

CommaSpace == <<",", " ">>

(***************************************************************************)
(* Blob.slice(0, end) and the matcher                                      *)
(***************************************************************************)
\* Math.max() of no arguments is -Infinity; Blob.slice clamps it to the
\* most negative 64-bit integer, which any size + end < 0 stands for
NegInfinity == -1000000

\* file.slice(0, end): a negative end counts from the end of the blob
slice(bytes, end) ==
  LET size == Len(bytes)
      relativeEnd == IF end < 0
                       THEN (IF size + end > 0 THEN size + end ELSE 0)
                       ELSE (IF end < size THEN end ELSE size)
  IN SubSeq(bytes, 1, relativeEnd)

\* matchMagicBytes without its length test (lines 77-79), comparing only
\* the positions the header has
matchMagicBytes_noLengthCheck(fileHeader, magicBytes) ==
  \A i \in 1..Len(magicBytes) : i <= Len(fileHeader) => fileHeader[i] = magicBytes[i]

\* matchMagicBytes (fileValidator.ts:76-88)
matchMagicBytes(fileHeader, magicBytes) ==
  IF Len(fileHeader) < Len(magicBytes)
    THEN FALSE
    ELSE \A i \in 1..Len(magicBytes) : fileHeader[i] = magicBytes[i]

(***************************************************************************)
(* validateFileType, stage by stage (fileValidator.ts:117-182)             *)
(***************************************************************************)
\* line 123: file.name.split('.').pop()?.toLowerCase() || ''
fileExtension(name) == toLowerCase(pop(split(name)))

\* Line 125 with a tag the registry does not know treated as a hit
\* (`!SUPPORTED_FILE_TYPES[type] || ...includes(ext)`)
extensionsInclude_unknownPasses(type, ext) ==
  \/ ~Registered(type)
  \/ ext \in Range(SUPPORTED_FILE_TYPES[type].extensions)

\* SUPPORTED_FILE_TYPES[type]?.extensions.includes(ext), line 125
extensionsInclude(type, ext) ==
  /\ Registered(type)
  /\ ext \in Range(SUPPORTED_FILE_TYPES[type].extensions)

\* The find of lines 124-126 with a predicate that only looks the tag up
\* and leaves out `.extensions.includes(fileExtension)`
extensionMatch_ignoresExtension(allowedTypes, ext) ==
  LET hits == {i \in 1..Len(allowedTypes) : Registered(allowedTypes[i])}
  IN IF hits = {} THEN Undefined ELSE allowedTypes[MinOf(hits)]

\* lines 124-126: allowedTypes.find(...), Undefined when nothing is found
extensionMatch(allowedTypes, ext) ==
  LET hits == {i \in 1..Len(allowedTypes) : extensionsInclude(allowedTypes[i], ext)}
  IN IF hits = {} THEN Undefined ELSE allowedTypes[MinOf(hits)]

\* line 131: the message of the extension rejection, as its text pieces:
\* the rejected extension, then the extensions of each allow-listed tag
\* joined by ', ' (an unregistered tag maps to undefined, joined as '')
extensionError(allowedTypes, ext) ==
  <<"extension not allowed: .">> \o ext \o <<"; supported: ">> \o
  join([i \in 1..Len(allowedTypes) |->
          IF Registered(allowedTypes[i])
            THEN join(SUPPORTED_FILE_TYPES[allowedTypes[i]].extensions, CommaSpace)
            ELSE <<>>],
       CommaSpace)

\* lines 136-143: whether console.warn reports a MIME mismatch
mimeMismatch(file, type) ==
  /\ Registered(type)
  /\ file.type # ""
  /\ file.type # SUPPORTED_FILE_TYPES[type].mime

\* lines 147-149: the flatMap of every allow-listed descriptor's lengths
magicBytesLengths(allowedTypes) ==
  UNION {{Len(mb) : mb \in Range(SUPPORTED_FILE_TYPES[type].magicBytes)} :
           type \in {t \in Range(allowedTypes) : Registered(t)}}

\* Lines 146-150 with Math.min in place of Math.max
maxMagicBytesLength_min(allowedTypes) ==
  LET lengths == magicBytesLengths(allowedTypes)
  IN IF lengths = {} THEN NegInfinity ELSE MinOf(lengths)

\* lines 146-150: Math.max(...lengths)
maxMagicBytesLength(allowedTypes) ==
  LET lengths == magicBytesLengths(allowedTypes)
  IN IF lengths = {} THEN NegInfinity ELSE MaxOf(lengths)

\* The loop of lines 155-168 run over Object.entries(SUPPORTED_FILE_TYPES),
\* as detectFileType does, instead of over allowedTypes
signatureLoop_overRegistry(allowedTypes, i, fileHeader) ==
  LET hits == {k \in i..Len(RegistryOrder) :
                 \E m \in 1..Len(SUPPORTED_FILE_TYPES[RegistryOrder[k]].magicBytes) :
                   matchMagicBytes(fileHeader, SUPPORTED_FILE_TYPES[RegistryOrder[k]].magicBytes[m])}
  IN IF hits = {} THEN Undefined ELSE RegistryOrder[MinOf(hits)]

\* lines 155-168: the first allow-listed, registered tag one of whose
\* signatures matches the header; Undefined when the loop falls through
RECURSIVE signatureLoop(_, _, _)
signatureLoop(allowedTypes, i, fileHeader) ==
  IF i > Len(allowedTypes) THEN Undefined
  ELSE LET type == allowedTypes[i]
       IN IF ~Registered(type)
            THEN signatureLoop(allowedTypes, i + 1, fileHeader)
            ELSE IF \E k \in 1..Len(SUPPORTED_FILE_TYPES[type].magicBytes) :
                      matchMagicBytes(fileHeader, SUPPORTED_FILE_TYPES[type].magicBytes[k])
                   THEN type
                   ELSE signatureLoop(allowedTypes, i + 1, fileHeader)

\* The verdicts validateFileType returns
\* lines 129-132
extensionVerdict(allowedTypes, ext) ==
  [valid |-> FALSE, detectedType |-> Undefined, error |-> extensionError(allowedTypes, ext)]

\* lines 162-165
matchVerdict(type) ==
  [valid |-> TRUE, detectedType |-> type, error |-> NoError]

\* lines 171-174
SignatureMismatchError == <<"file header check failed: content does not match the extension">>

\* Lines 171-174 returning { valid: false } with the error left out
mismatchVerdict_noError ==
  [valid |-> FALSE, detectedType |-> Undefined, error |-> NoError]

mismatchVerdict ==
  [valid |-> FALSE, detectedType |-> Undefined, error |-> SignatureMismatchError]

\* The catch clause of lines 176-181 returning the same object as the
\* mismatch path
catchVerdict_asMismatch(message) ==
  [valid |-> FALSE, detectedType |-> Undefined, error |-> SignatureMismatchError]

\* lines 176-181: the catch clause wraps the message of the caught Error
catchVerdict(message) ==
  [valid |-> FALSE, detectedType |-> Undefined,
   error |-> <<"error while validating the file: ", message>>]

\* lines 154-174: the rest of validateFileType once the header is in hand
signatureVerdict(allowedTypes, fileHeader) ==
  LET type == signatureLoop(allowedTypes, 1, fileHeader)
  IN IF type # Undefined THEN matchVerdict(type) ELSE mismatchVerdict

\* readFileHeader's two rejections (lines 59 and 63)
CannotReadHeader == "cannot read the file header"

ReadFailed == "reading the file failed"

(***************************************************************************)
(* detectFileType (fileValidator.ts:203-215)                               *)
(***************************************************************************)
DetectBytes == 8

RECURSIVE detectLoop(_, _)
detectLoop(i, fileHeader) ==
  IF i > Len(RegistryOrder) THEN "null"
  ELSE LET type == RegistryOrder[i]
       IN IF \E k \in 1..Len(SUPPORTED_FILE_TYPES[type].magicBytes) :
               matchMagicBytes(fileHeader, SUPPORTED_FILE_TYPES[type].magicBytes[k])
            THEN type
            ELSE detectLoop(i + 1, fileHeader)

(***************************************************************************)
(* The inputs the calls are made with                                      *)
(***************************************************************************)
\* The last '.'-separated segment of a file name: empty, a foreign
\* extension, the registered extensions, and an upper-case spelling
Segs == {<<>>, <<"a">>, <<"p","n","g">>, <<"P","N","G">>,
         <<"j","p","g">>, <<"j","p","e","g">>}

\* The segments before it: a plain stem, and a stem that reads like an
\* extension
StemSegs == {<<"a">>, <<"p","n","g">>}

\* Names of one to MaxSegs segments joined by '.'
Names == {join(stem \o <<last>>, <<".">>) :
            stem \in SeqsUpTo(StemSegs, MaxSegs - 1), last \in Segs}

\* Declared content types (File.type): none, and the two registered ones
Types == {"", "image/png", "image/jpeg"}

AllSignatures ==
  UNION {Range(SUPPORTED_FILE_TYPES[type].magicBytes) : type \in DOMAIN SUPPORTED_FILE_TYPES}

\* "#!/bin", the start of a script
ScriptBytes == <<35, 33, 47, 98, 105, 110>>

CountingBytes == <<0, 1, 2, 3, 4, 5, 6, 7>>

TailBytes == {0}

\* Contents: every signature, whole or cut short, a script and a run of
\* small bytes, each followed by up to MaxTail further bytes
Contents ==
  {head \o tail :
     head \in {SubSeq(sig, 1, k) : <<sig, k>> \in
                 {p \in AllSignatures \X (0..8) : p[2] <= Len(p[1])}}
              \cup {ScriptBytes, CountingBytes},
     tail \in SeqsUpTo(TailBytes, MaxTail)}

Files == [name : Names, type : Types, bytes : Contents]

\* Tags a caller may put in an allow-list; "gif" is not registered
Tags == {"png", "jpg", "gif"}

AllowLists == SeqsUpTo(Tags, MaxAllow)

(***************************************************************************)
(* Calls                                                                   *)
(***************************************************************************)
NoFile == [name |-> <<>>, type |-> "", bytes |-> <<>>]

NoVerdict == [valid |-> FALSE, detectedType |-> Undefined, error |-> NoError]

\* fn: the entry point; pc: idle, awaitRead (suspended in readFileHeader),
\* returned (the promise is fulfilled), rejected (the promise is rejected);
\* reader: the FileReader of readFileHeader: none, reading, loaded, failed;
\* blob: the slice handed to the reader; lengths: the lengths Math.max was
\* applied to (once maxComputed); warned: console.warn was called;
\* verdict / detected: the value the promise is fulfilled with;
\* thrown: the message of the Error the promise is rejected with
IdleCall ==
  [fn |-> "none", pc |-> "idle", file |-> NoFile, allowedTypes |-> <<>>,
   warned |-> FALSE, maxComputed |-> FALSE, lengths |-> {},
   reader |-> "none", blob |-> <<>>,
   verdict |-> NoVerdict, detected |-> Undefined, thrown |-> ""]

\* readFileHeader up to readAsArrayBuffer (lines 50-54, 64)
readFileHeader(call, bytes) ==
  [call EXCEPT !.reader = "reading", !.blob = slice(call.file.bytes, bytes)]

\* Lines 121-152 with the MIME stage of lines 139-142 returning a failure
\* instead of warning
validateFileTypeSync_mimeBlocks(file, allowedTypes) ==
  LET ext == fileExtension(file.name)
      match == extensionMatch(allowedTypes, ext)
      call == [IdleCall EXCEPT !.fn = "validateFileType", !.file = file,
                               !.allowedTypes = allowedTypes]
  IN IF match = Undefined
       THEN [call EXCEPT !.pc = "returned",
                         !.verdict = extensionVerdict(allowedTypes, ext)]
       ELSE IF mimeMismatch(file, match)
         THEN [call EXCEPT !.pc = "returned",
                           !.verdict = [valid |-> FALSE, detectedType |-> Undefined,
                                        error |-> <<"MIME type mismatch">>]]
         ELSE readFileHeader(
                [call EXCEPT !.pc = "awaitRead",
                             !.maxComputed = TRUE,
                             !.lengths = magicBytesLengths(allowedTypes)],
                maxMagicBytesLength(allowedTypes))

\* validateFileType from its entry to the first suspension or return
\* (lines 121-152)
validateFileTypeSync(file, allowedTypes) ==
  LET ext == fileExtension(file.name)
      match == extensionMatch(allowedTypes, ext)
      call == [IdleCall EXCEPT !.fn = "validateFileType", !.file = file,
                               !.allowedTypes = allowedTypes]
  IN IF match = Undefined
       THEN [call EXCEPT !.pc = "returned",
                         !.verdict = extensionVerdict(allowedTypes, ext)]
       ELSE readFileHeader(
              [call EXCEPT !.pc = "awaitRead",
                           !.warned = mimeMismatch(file, match),
                           !.maxComputed = TRUE,
                           !.lengths = magicBytesLengths(allowedTypes)],
              maxMagicBytesLength(allowedTypes))

\* Line 204 asking readFileHeader for the length of a JPEG signature
\* instead of 8 bytes
detectFileTypeSync_shortRead(file) ==
  readFileHeader([IdleCall EXCEPT !.fn = "detectFileType", !.file = file,
                                  !.pc = "awaitRead"],
                 Len(SUPPORTED_FILE_TYPES["jpg"].magicBytes[1]))

\* detectFileType up to its suspension (line 204)
detectFileTypeSync(file) ==
  readFileHeader([IdleCall EXCEPT !.fn = "detectFileType", !.file = file,
                                  !.pc = "awaitRead"],
                 DetectBytes)

\* The continuation of a call whose readFileHeader promise resolved with
\* fileHeader (lines 154-174, lines 206-214)
resumeWithHeader(call, fileHeader) ==
  IF call.fn = "validateFileType"
    THEN [call EXCEPT !.pc = "returned",
                      !.verdict = signatureVerdict(call.allowedTypes, fileHeader)]
    ELSE [call EXCEPT !.pc = "returned",
                      !.detected = detectLoop(1, fileHeader)]

\* The continuation of a call whose readFileHeader promise was rejected:
\* validateFileType catches (lines 176-181), detectFileType has no handler
\* and its own promise is rejected (line 204)
resumeWithError(call, message) ==
  IF call.fn = "validateFileType"
    THEN [call EXCEPT !.pc = "returned", !.verdict = catchVerdict(message)]
    ELSE [call EXCEPT !.pc = "rejected", !.thrown = message]

(***************************************************************************)
(* Actions                                                                 *)
(***************************************************************************)
CallIds == DOMAIN calls

\* A caller invokes validateFileType(file, allowedTypes)
validateFileType(c, file, allowedTypes) ==
  calls' = [calls EXCEPT ![c] = validateFileTypeSync(file, allowedTypes)]

\* A caller invokes detectFileType(file)
detectFileType(c, file) ==
  calls' = [calls EXCEPT ![c] = detectFileTypeSync(file)]

\* What a FileReader event does to the suspended call: "loaded" resolves
\* readFileHeader with the bytes of the blob (line 57), "notBuffer" and
\* "failed" reject it (lines 59 and 63)
readerEvent(call, outcome) ==
  IF outcome = "loaded"
    THEN resumeWithHeader([call EXCEPT !.reader = outcome], call.blob)
    ELSE resumeWithError([call EXCEPT !.reader = outcome],
                         IF outcome = "notBuffer" THEN CannotReadHeader ELSE ReadFailed)

\* reader.onload (lines 55-61): the result is an ArrayBuffer or it is not
onload(c, isArrayBuffer) ==
  calls' = [calls EXCEPT ![c] =
    readerEvent(calls[c], IF isArrayBuffer THEN "loaded" ELSE "notBuffer")]

\* reader.onerror (line 63)
onerror(c) ==
  calls' = [calls EXCEPT ![c] = readerEvent(calls[c], "failed")]

\* A slot that no call occupies yet
Idle(c) == calls[c].pc = "idle"

\* A call suspended in readFileHeader with its FileReader still reading
Reading(c) == calls[c].pc = "awaitRead" /\ calls[c].reader = "reading"

Validate == /\ \E c \in CallIds :
                 /\ Idle(c)
                 /\ \E file \in Files, allowedTypes \in AllowLists :
                      validateFileType(c, file, allowedTypes)
            /\ UNCHANGED <<widget, procs>>

Detect == /\ \E c \in CallIds :
               /\ Idle(c)
               /\ \E file \in Files : detectFileType(c, file)
          /\ UNCHANGED <<widget, procs>>

OnLoad == /\ \E c \in CallIds :
               /\ Reading(c)
               /\ \E isArrayBuffer \in BOOLEAN : onload(c, isArrayBuffer)
          /\ UNCHANGED <<widget, procs>>

OnError == /\ \E c \in CallIds : Reading(c) /\ onerror(c)
           /\ UNCHANGED <<widget, procs>>

(***************************************************************************)
(* The upload widget (the component of cosUpload.ts:229-408) and the       *)
(* transport uploadViaBackendAPI (cosUpload.ts:142-175)                    *)
(***************************************************************************)
\* line 243
MAX_FILE_SIZE == 5 * 1024 * 1024

\* line 246
ALLOWED_TYPES == <<"png", "jpg">>

PngBytes == SUPPORTED_FILE_TYPES["png"].magicBytes[1]

\* The files dropped on the widget: a name, a declared type, the leading
\* bytes and the size.  A file of 5MB or more is one that starts with the
\* PNG signature; the other files are their leading bytes and nothing more
WidgetNames == {<<"a", ".", "p", "n", "g">>, <<"a", ".", "a">>}

WidgetContents == {<<>>, PngBytes, ScriptBytes}

WidgetFiles ==
  {f \in [name : WidgetNames, type : {"image/png"}, bytes : WidgetContents,
          size : {0, Len(ScriptBytes), Len(PngBytes), MAX_FILE_SIZE, MAX_FILE_SIZE + 1}] :
     \/ f.size = Len(f.bytes)
     \/ f.size >= MAX_FILE_SIZE /\ f.bytes = PngBytes}

NoWidgetFile == [name |-> <<>>, type |-> "", bytes |-> <<>>, size |-> 0]

\* The empty string of a url ref, URL.createObjectURL(file) of the file of
\* invocation p (line 337), and the url the backend answers for it
NoUrl == <<>>

blobUrl(p) == <<"blob:", p>>

httpUrl(p) == <<"https:", p>>

\* Messages of lines 311, 316, 160/172/349 and 404
TooLargeError == <<"file size exceeds the limit">>

EmptyFileError == <<"file is empty">>

UploadFailedError == <<"upload failed">>

CopyFailedError == <<"copy failed, copy by hand">>

\* The refs of lines 235-240
InitialWidget ==
  [uploading |-> FALSE, previewUrl |-> NoUrl, uploadedUrl |-> NoUrl,
   error |-> NoError, warning |-> NoError, progress |-> 0]

\* An invocation of processFile: pc is idle, awaitValidate (line 327),
\* awaitUpload (line 346) or done; upload is none until uploadViaBackendAPI
\* is invoked, then pending, success or failure; timer: the setTimeout of
\* line 359 is pending
IdleProc == [pc |-> "idle", file |-> NoWidgetFile, upload |-> "none", timer |-> FALSE]

\* What uploadViaBackendAPI resolves with (lines 156-173): a url, a
\* success whose body carries no url, or a failure; it never rejects
uploadViaBackendAPI(p, outcome) ==
  CASE outcome = "ok" -> [success |-> TRUE, url |-> httpUrl(p), error |-> NoError]
    [] outcome = "noUrl" -> [success |-> TRUE, url |-> NoUrl, error |-> NoError]
    [] OTHER -> [success |-> FALSE, url |-> NoUrl, error |-> UploadFailedError]

UploadOutcomes == {"ok", "noUrl", "failed"}

\* processFile after `await uploadViaBackendAPI` (lines 348-361)
afterUpload(w, proc, result) ==
  IF ~result.success
    THEN [widget |-> [w EXCEPT !.error = result.error, !.uploading = FALSE],
          proc |-> [proc EXCEPT !.pc = "done", !.upload = "failure"]]
    ELSE [widget |-> [w EXCEPT !.progress = 100, !.uploadedUrl = result.url],
          proc |-> [proc EXCEPT !.pc = "done", !.upload = "success", !.timer = TRUE]]

\* Lines 329-346 with the test of line 329 on the result object instead of
\* its valid flag, which never holds
afterValidate_ignoresValid(w, proc, p, verdict) ==
  [widget |-> [w EXCEPT !.progress = 70, !.previewUrl = blobUrl(p)],
   proc |-> [proc EXCEPT !.pc = "awaitUpload", !.upload = "pending"]]

\* processFile after `await validateFileType` up to the call of
\* uploadViaBackendAPI (lines 329-346)
afterValidate(w, proc, p, verdict) ==
  IF ~verdict.valid
    THEN [widget |-> [w EXCEPT !.error = verdict.error, !.uploading = FALSE],
          proc |-> [proc EXCEPT !.pc = "done"]]
    ELSE [widget |-> [w EXCEPT !.progress = 70, !.previewUrl = blobUrl(p)],
          proc |-> [proc EXCEPT !.pc = "awaitUpload", !.upload = "pending"]]

\* processFile from its entry to `await validateFileType` (lines 302-327):
\* the refs are reset, the size is checked, and validateFileType runs up to
\* its own first suspension; when it returns without suspending, the
\* continuation of processFile follows in the same turn of the event loop
processFileSync(w, p, file) ==
  LET reset == [w EXCEPT !.error = NoError, !.warning = NoError, !.previewUrl = NoUrl,
                         !.uploadedUrl = NoUrl, !.progress = 0]
      proc == [IdleProc EXCEPT !.file = file]
      call == validateFileTypeSync(file, ALLOWED_TYPES)
      started == [reset EXCEPT !.uploading = TRUE, !.progress = 30]
  IN IF file.size > MAX_FILE_SIZE
       THEN [widget |-> [reset EXCEPT !.error = TooLargeError],
             proc |-> [proc EXCEPT !.pc = "done"], call |-> IdleCall]
       ELSE IF file.size = 0
         THEN [widget |-> [reset EXCEPT !.error = EmptyFileError],
               proc |-> [proc EXCEPT !.pc = "done"], call |-> IdleCall]
         ELSE IF call.pc = "returned"
           THEN LET after == afterValidate(started, proc, p, call.verdict)
                IN [widget |-> after.widget, proc |-> after.proc, call |-> call]
           ELSE [widget |-> started,
                 proc |-> [proc EXCEPT !.pc = "awaitValidate"], call |-> call]

ProcIds == DOMAIN procs

\* The invocations are numbered in the order they are made
NextToStart(p) ==
  /\ procs[p].pc = "idle"
  /\ \A q \in ProcIds : q < p => procs[q].pc # "idle"

\* handleFileSelect / handleDrop (lines 265-285) with a file: processFile
ProcessFile ==
  \E p \in ProcIds :
    /\ NextToStart(p)
    /\ \E file \in WidgetFiles :
         LET after == processFileSync(widget, p, file)
         IN /\ widget' = after.widget
            /\ procs' = [procs EXCEPT ![p] = after.proc]
            /\ calls' = [calls EXCEPT ![p] = after.call]

\* The FileReader event of the validateFileType call of invocation p, and
\* the continuations of validateFileType and of processFile it resumes
WidgetReaderEvent(p, outcome) ==
  LET call == readerEvent(calls[p], outcome)
      after == afterValidate(widget, procs[p], p, call.verdict)
  IN /\ calls' = [calls EXCEPT ![p] = call]
     /\ widget' = after.widget
     /\ procs' = [procs EXCEPT ![p] = after.proc]

WidgetOnLoad ==
  \E p \in ProcIds :
    /\ procs[p].pc = "awaitValidate" /\ Reading(p)
    /\ \E isArrayBuffer \in BOOLEAN :
         WidgetReaderEvent(p, IF isArrayBuffer THEN "loaded" ELSE "notBuffer")

WidgetOnError ==
  \E p \in ProcIds :
    /\ procs[p].pc = "awaitValidate" /\ Reading(p)
    /\ WidgetReaderEvent(p, "failed")

\* uploadViaBackendAPI settles and processFile resumes (lines 346-361)
UploadSettles ==
  \E p \in ProcIds :
    /\ procs[p].pc = "awaitUpload"
    /\ \E outcome \in UploadOutcomes :
         LET after == afterUpload(widget, procs[p], uploadViaBackendAPI(p, outcome))
         IN /\ widget' = after.widget
            /\ procs' = [procs EXCEPT ![p] = after.proc]
    /\ UNCHANGED calls

\* The callback of the setTimeout of lines 359-361
Timeout ==
  \E p \in ProcIds :
    /\ procs[p].timer
    /\ widget' = [widget EXCEPT !.uploading = FALSE]
    /\ procs' = [procs EXCEPT ![p].timer = FALSE]
    /\ UNCHANGED calls

\* resetUpload (lines 377-388); its button is rendered with the preview
\* area (template line 199)
ResetUpload ==
  /\ widget.previewUrl # NoUrl /\ ~widget.uploading
  /\ widget' = [widget EXCEPT !.previewUrl = NoUrl, !.uploadedUrl = NoUrl,
                              !.error = NoError, !.warning = NoError]
  /\ UNCHANGED <<calls, procs>>

\* copyUrl (lines 398-407) when the clipboard refuses; its button is
\* rendered with the preview area once there is an uploaded url
CopyUrlFails ==
  /\ widget.previewUrl # NoUrl /\ ~widget.uploading
  /\ widget.uploadedUrl # NoUrl
  /\ widget' = [widget EXCEPT !.error = CopyFailedError]
  /\ UNCHANGED <<calls, procs>>

Init ==
  /\ calls = [c \in {1} |-> IdleCall]
  /\ widget = InitialWidget
  /\ procs = [p \in {} |-> IdleProc]

Next == Validate \/ Detect \/ OnLoad \/ OnError

Spec == Init /\ [][Next]_vars

WidgetInit ==
  /\ calls = [c \in 1..MaxProcs |-> IdleCall]
  /\ widget = InitialWidget
  /\ procs = [p \in 1..MaxProcs |-> IdleProc]

WidgetNext ==
  \/ ProcessFile
  \/ WidgetOnLoad
  \/ WidgetOnError
  \/ UploadSettles
  \/ Timeout
  \/ ResetUpload
  \/ CopyUrlFails

WidgetSpec == WidgetInit /\ [][WidgetNext]_vars

(***************************************************************************)
(* Vocabulary of the properties.  These are stated from the file and the   *)
(* allow-list alone, not through the operators of the code.                *)
(***************************************************************************)
IsValidate(c) == calls[c].fn = "validateFileType"

Returned(c) == calls[c].pc = "returned"

\* The part of the name after its last '.', in lower case (the whole name
\* when it has no '.')
SuffixAfterLastDot(name) ==
  LET dots == {i \in 1..Len(name) : name[i] = "."}
      last == IF dots = {} THEN 0 ELSE MaxOf(dots)
  IN toLowerCase(SubSeq(name, last + 1, Len(name)))

RegisteredTags(allowedTypes) == Range(allowedTypes) \cap DOMAIN SUPPORTED_FILE_TYPES

ExtensionsOf(type) == Range(SUPPORTED_FILE_TYPES[type].extensions)

SignaturesOf(type) == Range(SUPPORTED_FILE_TYPES[type].magicBytes)

\* The extensions unioned across the allow-list
AllowedExtensions(allowedTypes) ==
  UNION {ExtensionsOf(type) : type \in RegisteredTags(allowedTypes)}

\* sig is exactly the start of bytes
LeadingBytesEqual(bytes, sig) ==
  /\ Len(bytes) >= Len(sig)
  /\ SubSeq(bytes, 1, Len(sig)) = sig

\* The content carries one of the signatures of type
Carries(bytes, type) == \E sig \in SignaturesOf(type) : LeadingBytesEqual(bytes, sig)

(***************************************************************************)
(* C1: a validateFileType call on a file whose lower-cased suffix after    *)
(* the last '.' is not an extension of any registered descriptor named in  *)
(* the allow-list has returned valid=false, and at no point of the call    *)
(* has a read been started: no FileReader, no blob.                        *)
(***************************************************************************)
ExtensionCheckPrecedesRead ==
  \A c \in CallIds :
    (/\ IsValidate(c)
     /\ SuffixAfterLastDot(calls[c].file.name) \notin AllowedExtensions(calls[c].allowedTypes))
    => /\ Returned(c)
       /\ calls[c].verdict.valid = FALSE
       /\ calls[c].reader = "none"
       /\ calls[c].blob = <<>>

\* A PNG-bearing file with a foreign extension, rejected against an
\* allow-list that names png
ExtensionRejectedWitness ==
  \E c \in CallIds :
    /\ IsValidate(c) /\ Returned(c)
    /\ "png" \in Range(calls[c].allowedTypes)
    /\ SuffixAfterLastDot(calls[c].file.name) = <<"a">>
    /\ Carries(calls[c].file.bytes, "png")
    /\ calls[c].verdict.valid = FALSE
    /\ calls[c].reader = "none"

(***************************************************************************)
(* C2: for a registered tag t in the allow-list, a file whose name ends in *)
(* one of t's extensions and whose content starts with one of t's          *)
(* signatures is never turned away before the read, and once the read has  *)
(* succeeded the verdict is valid=true with detectedType=t and no error,   *)
(* whatever the declared content type.                                     *)
(***************************************************************************)
GenuineFileAccepted ==
  \A c \in CallIds : \A t \in DOMAIN SUPPORTED_FILE_TYPES :
    (/\ IsValidate(c)
     /\ t \in Range(calls[c].allowedTypes)
     /\ SuffixAfterLastDot(calls[c].file.name) \in ExtensionsOf(t)
     /\ Carries(calls[c].file.bytes, t))
    => /\ calls[c].reader # "none"
       /\ calls[c].reader = "loaded" =>
            /\ Returned(c)
            /\ calls[c].verdict = [valid |-> TRUE, detectedType |-> t, error |-> NoError]

\* An upper-case .PNG name, a PNG signature followed by a trailing byte,
\* a declared type of image/jpeg, and jpg ahead of png in the allow-list
GenuineFileWitness ==
  \E c \in CallIds :
    /\ IsValidate(c) /\ Returned(c)
    /\ calls[c].allowedTypes = <<"jpg", "png">>
    /\ pop(split(calls[c].file.name)) = <<"P","N","G">>
    /\ calls[c].file.type = "image/jpeg"
    /\ Carries(calls[c].file.bytes, "png")
    /\ Len(calls[c].file.bytes) > 8
    /\ calls[c].verdict.valid
    /\ calls[c].verdict.detectedType = "png"

(***************************************************************************)
(* C3: when the extension is allowed and the read has succeeded, a         *)
(* content that starts with no signature of any registered tag of the      *)
(* allow-list (a content shorter than every signature included) gets the   *)
(* signature-mismatch verdict: valid=false, that error, no detected type.  *)
(***************************************************************************)
MismatchRejected ==
  \A c \in CallIds :
    (/\ IsValidate(c)
     /\ SuffixAfterLastDot(calls[c].file.name) \in AllowedExtensions(calls[c].allowedTypes)
     /\ calls[c].reader = "loaded"
     /\ \A t \in RegisteredTags(calls[c].allowedTypes) : ~Carries(calls[c].file.bytes, t))
    => /\ Returned(c)
       /\ calls[c].verdict =
            [valid |-> FALSE, detectedType |-> Undefined, error |-> SignatureMismatchError]

\* A .png file cut off inside the PNG signature
TruncatedSignatureWitness ==
  \E c \in CallIds :
    /\ IsValidate(c) /\ Returned(c)
    /\ calls[c].reader = "loaded"
    /\ SuffixAfterLastDot(calls[c].file.name) = <<"p","n","g">>
    /\ calls[c].file.bytes = <<137, 80, 78, 71, 13, 10, 26>>
    /\ calls[c].verdict.valid = FALSE
    /\ calls[c].verdict.error = SignatureMismatchError

(***************************************************************************)
(* C4: a valid verdict names the type the file claims by its extension:    *)
(* the file's extension is one of the extensions of detectedType.          *)
(***************************************************************************)
ValidImpliesClaimedType ==
  \A c \in CallIds :
    (IsValidate(c) /\ Returned(c) /\ calls[c].verdict.valid)
    => /\ Registered(calls[c].verdict.detectedType)
       /\ SuffixAfterLastDot(calls[c].file.name) \in ExtensionsOf(calls[c].verdict.detectedType)

(***************************************************************************)
(* C5: the declared content type never affects the verdict.  Whatever a    *)
(* validateFileType call has returned, the call on a file of the same      *)
(* name and bytes with any other declared type, the same allow-list and    *)
(* the same outcome of the read returns the same valid flag, detectedType  *)
(* and error; a mismatch shows only in the warning.                        *)
(***************************************************************************)
\* The verdict of the same call made with declared type t
VerdictWithType(call, t) ==
  LET start == validateFileTypeSync([call.file EXCEPT !.type = t], call.allowedTypes)
  IN IF start.pc = "returned"
       THEN start.verdict
       ELSE readerEvent(start, call.reader).verdict

DeclaredTypeIrrelevant ==
  \A c \in CallIds :
    (IsValidate(c) /\ Returned(c))
    => \A t \in Types : VerdictWithType(calls[c], t) = calls[c].verdict

\* A JPEG named .jpg and declared image/png: warned about, and accepted
MimeMismatchWitness ==
  \E c \in CallIds :
    /\ IsValidate(c) /\ Returned(c)
    /\ SuffixAfterLastDot(calls[c].file.name) = <<"j","p","g">>
    /\ calls[c].file.type = "image/png"
    /\ calls[c].file.bytes = <<255, 216, 255, 225>>
    /\ calls[c].warned
    /\ calls[c].verdict.valid
    /\ calls[c].verdict.detectedType = "jpg"

(***************************************************************************)
(* C6: every verdict validateFileType returns has exactly one of           *)
(* detectedType and error, as valid says: a valid verdict has a detected   *)
(* type and no error, an invalid one an error and no detected type.        *)
(***************************************************************************)
VerdictWellFormed ==
  \A c \in CallIds :
    (IsValidate(c) /\ Returned(c))
    => /\ calls[c].verdict.valid =>
            /\ calls[c].verdict.detectedType # Undefined
            /\ calls[c].verdict.error = NoError
       /\ ~calls[c].verdict.valid =>
            /\ calls[c].verdict.error # NoError
            /\ calls[c].verdict.detectedType = Undefined

\* The verdict of the mismatch path, on a script named .png
MismatchVerdictWitness ==
  \E c \in CallIds :
    /\ IsValidate(c) /\ Returned(c)
    /\ calls[c].reader = "loaded"
    /\ SuffixAfterLastDot(calls[c].file.name) = <<"p","n","g">>
    /\ calls[c].file.bytes = ScriptBytes
    /\ ~calls[c].verdict.valid
    /\ calls[c].verdict.error # NoError
    /\ calls[c].verdict.detectedType = Undefined

(***************************************************************************)
(* C7: a validateFileType call whose read has failed (the reader signalled *)
(* an error, or its result was no ArrayBuffer) has returned valid=false    *)
(* with an error that is not the signature-mismatch error.                 *)
(***************************************************************************)
ReadFailureDistinct ==
  \A c \in CallIds :
    (IsValidate(c) /\ calls[c].reader \in {"failed", "notBuffer"})
    => /\ Returned(c)
       /\ ~calls[c].verdict.valid
       /\ calls[c].verdict.error # NoError
       /\ calls[c].verdict.error # SignatureMismatchError

\* A genuine PNG whose read fails
ReadFailureWitness ==
  \E c \in CallIds :
    /\ IsValidate(c) /\ Returned(c)
    /\ calls[c].reader = "failed"
    /\ Carries(calls[c].file.bytes, "png")
    /\ SuffixAfterLastDot(calls[c].file.name) = <<"p","n","g">>
    /\ ~calls[c].verdict.valid

(***************************************************************************)
(* C8: no call of validateFileType or detectFileType ever ends with its    *)
(* promise rejected: every failure comes back as a value.                  *)
(***************************************************************************)
NeverRejects ==
  \A c \in CallIds : calls[c].pc # "rejected"

(***************************************************************************)
(* C9: with an allow-list that is empty or names no registered tag,        *)
(* validateFileType has returned valid=false without computing the         *)
(* maximum signature length and without starting a read; and the maximum   *)
(* is never taken over an empty set of lengths.                            *)
(***************************************************************************)
DegenerateAllowListRejected ==
  \A c \in CallIds :
    IsValidate(c)
    => /\ RegisteredTags(calls[c].allowedTypes) = {} =>
            /\ Returned(c)
            /\ ~calls[c].verdict.valid
            /\ ~calls[c].maxComputed
            /\ calls[c].reader = "none"
       /\ calls[c].maxComputed => calls[c].lengths # {}

\* A genuine PNG checked against an allow-list of unregistered tags only
UnregisteredOnlyWitness ==
  \E c \in CallIds :
    /\ IsValidate(c) /\ Returned(c)
    /\ calls[c].allowedTypes = <<"gif", "gif">>
    /\ SuffixAfterLastDot(calls[c].file.name) = <<"p","n","g">>
    /\ Carries(calls[c].file.bytes, "png")
    /\ ~calls[c].verdict.valid
    /\ calls[c].reader = "none"

(***************************************************************************)
(* C10: a valid verdict names the earliest tag of the allow-list, the      *)
(* unregistered ones skipped, that has a signature equal to the leading    *)
(* bytes of the file; it is a registered tag of the allow-list.            *)
(***************************************************************************)
FirstMatchWins ==
  \A c \in CallIds :
    (IsValidate(c) /\ Returned(c) /\ calls[c].verdict.valid)
    => LET allowedTypes == calls[c].allowedTypes
           hits == {i \in 1..Len(allowedTypes) :
                      /\ allowedTypes[i] \in DOMAIN SUPPORTED_FILE_TYPES
                      /\ Carries(calls[c].file.bytes, allowedTypes[i])}
       IN /\ hits # {}
          /\ calls[c].verdict.detectedType = allowedTypes[MinOf(hits)]
          /\ calls[c].verdict.detectedType \in RegisteredTags(allowedTypes)

\* The match is found at the second tag, behind an unregistered one
SecondTagWitness ==
  \E c \in CallIds :
    /\ IsValidate(c) /\ Returned(c)
    /\ calls[c].allowedTypes = <<"gif", "jpg">>
    /\ calls[c].verdict.valid
    /\ calls[c].verdict.detectedType = "jpg"

(***************************************************************************)
(* C11: what detectFileType returns is fixed by the first 8 bytes of the   *)
(* source: it is the first registry entry, png before jpg, one of whose    *)
(* signatures starts those bytes, or null when none does; the same bytes   *)
(* under any other name or declared type, and any other content with the   *)
(* same first 8 bytes, give the same result.                               *)
(***************************************************************************)
IsDetect(c) == calls[c].fn = "detectFileType"

FirstBytes(bytes, n) == SubSeq(bytes, 1, IF Len(bytes) < n THEN Len(bytes) ELSE n)

\* What detectFileType returns for file when its read succeeds
DetectedFor(file) == readerEvent(detectFileTypeSync(file), "loaded").detected

DetectDependsOnPrefixOnly ==
  \A c \in CallIds :
    (IsDetect(c) /\ Returned(c))
    => LET file == calls[c].file
           hits == {k \in 1..Len(RegistryOrder) :
                      Carries(FirstBytes(file.bytes, 8), RegistryOrder[k])}
       IN /\ calls[c].detected = IF hits = {} THEN "null" ELSE RegistryOrder[MinOf(hits)]
          /\ \A name \in Names, type \in Types :
               DetectedFor([file EXCEPT !.name = name, !.type = type]) = calls[c].detected
          /\ \A bytes \in Contents :
               FirstBytes(bytes, 8) = FirstBytes(file.bytes, 8)
               => DetectedFor([file EXCEPT !.bytes = bytes]) = calls[c].detected

\* A PNG with trailing data, named .jpg and declared image/jpeg, detected
\* as png
DetectIgnoresNameWitness ==
  \E c \in CallIds :
    /\ IsDetect(c) /\ Returned(c)
    /\ SuffixAfterLastDot(calls[c].file.name) = <<"j","p","g">>
    /\ calls[c].file.type = "image/jpeg"
    /\ Carries(calls[c].file.bytes, "png")
    /\ Len(calls[c].file.bytes) > 8
    /\ calls[c].detected = "png"

(***************************************************************************)
(* C12: in processFile the stages gate each other.  validateFileType is    *)
(* invoked only for a file that is not empty and not above 5MB;            *)
(* uploadViaBackendAPI is invoked for a file only once validateFileType    *)
(* has returned valid=true for that same file; a file whose verdict is not *)
(* valid is never handed to the transport.                                 *)
(***************************************************************************)
StagesGateEachOther ==
  \A p \in ProcIds :
    /\ calls[p].fn # "none" =>
         /\ IsValidate(p)
         /\ calls[p].file = procs[p].file
         /\ procs[p].file.size > 0
         /\ procs[p].file.size <= 5 * 1024 * 1024
    /\ procs[p].upload # "none" =>
         /\ IsValidate(p) /\ Returned(p)
         /\ calls[p].file = procs[p].file
         /\ calls[p].verdict.valid
    /\ (Returned(p) /\ ~calls[p].verdict.valid) => procs[p].upload = "none"

\* A PNG of exactly 5MB has been uploaded, and a script named .png that
\* was dropped as well has been validated and turned away
GatedUploadWitness ==
  \E p, q \in ProcIds :
    /\ procs[p].upload = "success"
    /\ procs[p].file.size = 5 * 1024 * 1024
    /\ calls[p].verdict.valid
    /\ procs[q].pc = "done"
    /\ procs[q].file.bytes = ScriptBytes
    /\ Returned(q) /\ calls[q].reader = "loaded"
    /\ procs[q].upload = "none"

(***************************************************************************)
(* C13: when processFile is invoked again while an earlier invocation is   *)
(* still waiting, the widget ends up showing the most recently submitted   *)
(* file only: uploading is not cleared while the latest invocation is in   *)
(* flight, and once every invocation has finished the preview, the         *)
(* uploaded url and the error are those of the latest file.                *)
(***************************************************************************)
Started == {p \in ProcIds : procs[p].pc # "idle"}

InFlight(p) == procs[p].pc \in {"awaitValidate", "awaitUpload"}

Settled == \A p \in ProcIds : ~InFlight(p) /\ ~procs[p].timer

\* The error invocation p has ended with, if any
ErrorOf(p) ==
  CASE procs[p].file.size > 5 * 1024 * 1024 -> TooLargeError
    [] procs[p].file.size = 0 -> EmptyFileError
    [] Returned(p) /\ ~calls[p].verdict.valid -> calls[p].verdict.error
    [] procs[p].upload = "failure" -> UploadFailedError
    [] OTHER -> NoError

LatestFileOnly ==
  Started # {} =>
    LET latest == MaxOf(Started)
    IN /\ InFlight(latest) => widget.uploading
       /\ Settled =>
            /\ widget.previewUrl \in {NoUrl, blobUrl(latest)}
            /\ widget.uploadedUrl \in {NoUrl, httpUrl(latest)}
            /\ widget.error \in {NoError, CopyFailedError, ErrorOf(latest)}

====
